---- MODULE Spec2Model ----
(***************************************************************************)
(* The tools/actions scripts of xrtl: two Bazel extra_action extractors    *)
(* (generate_compile_command.py, generate_link_target.py) that write       *)
(* NUL-delimited side-car files, and two aggregators                       *)
(* (generate_compile_commands_json.py, generate_link_targets_json.py) that *)
(* walk a directory of side-car files and write one JSON array file.       *)
(*                                                                         *)
(* A string is a sequence of one-character strings; the byte 0x00 is the   *)
(* element NUL.  The scripts are Python 2 (range(0, len(contents) / 2) is  *)
(* integer division) run on a POSIX os.path (the cygwin test of the        *)
(* aggregator presupposes one).                                            *)
(***************************************************************************)
EXTENDS Integers, Sequences, FiniteSets, TLC

\* The byte '\0'.
NUL == "NUL"
QUOTE == "\""
BACKSLASH == "\\"
SLASH == "/"

\* A path at which no file exists (no file holds this element).
Absent == <<"ABSENT">>
\* Python's None, where a string is expected.
None == <<"None">>

----------------------------------------------------------------------------
(* Python str methods, on sequences of characters.                         *)

StartsWith(s, p) == Len(s) >= Len(p) /\ SubSeq(s, 1, Len(p)) = p

EndsWith(s, p) == Len(s) >= Len(p) /\ SubSeq(s, Len(s) - Len(p) + 1, Len(s)) = p

\* s[n:]
DropFirst(s, n) == IF n >= Len(s) THEN <<>> ELSE SubSeq(s, n + 1, Len(s))

\* s.replace(old, new), old non-empty: leftmost non-overlapping occurrences.
RECURSIVE str_replace(_, _, _)
str_replace(s, old, new) ==
  IF Len(s) < Len(old) THEN s
  ELSE IF SubSeq(s, 1, Len(old)) = old
       THEN new \o str_replace(DropFirst(s, Len(old)), old, new)
       ELSE <<s[1]>> \o str_replace(Tail(s), old, new)

\* s.split(sep) for a one-character sep: always at least one field.
RECURSIVE str_split(_, _)
str_split(s, sep) ==
  IF \A i \in 1..Len(s) : s[i] # sep THEN <<s>>
  ELSE LET i == CHOOSE k \in 1..Len(s) :
                  s[k] = sep /\ \A j \in 1..(k - 1) : s[j] # sep
       IN <<SubSeq(s, 1, i - 1)>> \o str_split(DropFirst(s, i), sep)

\* sep.join(parts)
RECURSIVE str_join(_, _)
str_join(sep, parts) ==
  IF parts = <<>> THEN <<>>
  ELSE IF Len(parts) = 1 THEN parts[1]
       ELSE parts[1] \o sep \o str_join(sep, Tail(parts))

\* ''.join(parts): what successive f.write calls leave in a file.
RECURSIVE Concat(_)
Concat(parts) == IF parts = <<>> THEN <<>> ELSE Head(parts) \o Concat(Tail(parts))

----------------------------------------------------------------------------
(* posixpath, as called by the aggregators.                                *)

\* os.path.join(a, b)
os_path_join(a, b) ==
  IF StartsWith(b, <<SLASH>>) THEN b
  ELSE IF a = <<>> \/ EndsWith(a, <<SLASH>>) THEN a \o b
       ELSE a \o <<SLASH>> \o b

\* The component loop of os.path.normpath.
RECURSIVE NormComps(_, _, _)
NormComps(comps, new_comps, initial_slashes) ==
  IF comps = <<>> THEN new_comps
  ELSE LET comp == Head(comps)
           dotdot == <<".", ".">>
       IN IF comp = <<>> \/ comp = <<".">>
          THEN NormComps(Tail(comps), new_comps, initial_slashes)
          ELSE IF \/ comp # dotdot
                  \/ (initial_slashes = 0 /\ new_comps = <<>>)
                  \/ (new_comps # <<>> /\ new_comps[Len(new_comps)] = dotdot)
               THEN NormComps(Tail(comps), Append(new_comps, comp), initial_slashes)
               ELSE IF new_comps # <<>>
                    THEN NormComps(Tail(comps),
                                   SubSeq(new_comps, 1, Len(new_comps) - 1),
                                   initial_slashes)
                    ELSE NormComps(Tail(comps), new_comps, initial_slashes)

\* os.path.normpath(path)
os_path_normpath(path) ==
  IF path = <<>> THEN <<".">>
  ELSE LET initial_slashes ==
             IF ~StartsWith(path, <<SLASH>>) THEN 0
             ELSE IF StartsWith(path, <<SLASH, SLASH>>)
                     /\ ~StartsWith(path, <<SLASH, SLASH, SLASH>>)
                  THEN 2 ELSE 1
           comps == NormComps(str_split(path, SLASH), <<>>, initial_slashes)
           joined == str_join(<<SLASH>>, comps)
           result == IF initial_slashes = 2 THEN <<SLASH, SLASH>> \o joined
                     ELSE IF initial_slashes = 1 THEN <<SLASH>> \o joined
                          ELSE joined
       IN IF result = <<>> THEN <<".">> ELSE result

\* os.path.abspath(path), the process running in directory cwd.
os_path_abspath(path, cwd) ==
  IF StartsWith(path, <<SLASH>>) THEN os_path_normpath(path)
  ELSE os_path_normpath(os_path_join(cwd, path))

----------------------------------------------------------------------------
(* Inputs.  An ExtraActionInfo is what MergeFromString leaves in `action`: *)
(* owner, id and the two extensions the scripts read.  An extension that   *)
(* the serialized record does not carry reads as the protobuf default      *)
(* (empty strings, empty lists).                                           *)

\* Longest sources_and_headers list of a compile action.
MaxHeaders == 2

RECURSIVE SeqsUpTo(_, _)
SeqsUpTo(S, n) ==
  IF n = 0 THEN {<<>>}
  ELSE LET shorter == SeqsUpTo(S, n - 1)
       IN shorter \cup {Append(q, x) : q \in shorter, x \in S}

OptionLists ==
  { <<>>,
    << <<"-", "O">> >>,
    << <<"\"", "a", "\"">> >>,
    << <<"\\", "\"">> >>,
    << <<"-", "O">>, <<"-", "I", "\\">> >> }

SourceFiles == { <<"a", ".", "c">>, <<"/", ".", "/", "a", ".", "h">> }

HeaderFiles == { <<"a", ".", "h">>, <<"a", "h">> }

CppCompileInfo(tool, compiler_option, source_file, output_file, sources_and_headers) ==
  [tool |-> tool, compiler_option |-> compiler_option, source_file |-> source_file,
   output_file |-> output_file, sources_and_headers |-> sources_and_headers]

\* The CppCompileInfo extensions of the records fed to generate_compile_command:
\* every option list with no header list, every header list with one option,
\* and the default extension of a record that carries none.
CompileInfos ==
  { CppCompileInfo(<<"c", "c">>, o, s, <<"a", ".", "o">>, <<>>) :
      o \in OptionLists, s \in SourceFiles }
  \cup { CppCompileInfo(<<"c", "c">>, << <<"-", "O">> >>, <<"a", ".", "c">>,
                        <<"a", ".", "o">>, h) :
           h \in SeqsUpTo(HeaderFiles, MaxHeaders) }
  \cup { CppCompileInfo(<<>>, <<>>, <<>>, <<>>, <<>>) }

Owners == { <<"/", "/", "a", ":", "b">>, <<"\"">> }
ActionIds == { <<"1", "f">>, <<"\\">> }
LinkOutputs == { <<"b", "/", "x">>, <<"/", "x">>, <<"b", "\\", "x">> }

EXECUTABLE == "EXECUTABLE"

LinkAction(owner, id, link_target_type, output_file) ==
  [owner |-> owner, id |-> id, link_target_type |-> link_target_type,
   output_file |-> output_file]

\* The records fed to generate_link_target.
LinkActions ==
  { LinkAction(o, i, EXECUTABLE, p) : o \in Owners, i \in ActionIds, p \in LinkOutputs }
  \cup { LinkAction(<<"/", "/", "a", ":", "b">>, <<"1", "f">>, t, <<"b", "/", "x">>) :
           t \in {"STATIC_LIBRARY", "DYNAMIC_LIBRARY"} }
  \cup { LinkAction(<<>>, <<>>, "", <<>>) }

\* argv[1] names no readable file, or a file that is no serialized record.
Unreadable == [error |-> "IOError"]
Corrupt == [error |-> "DecodeError"]
IsRecord(input) == "error" \notin DOMAIN input

\* The side-car paths under the two action output directories.
CompileCommandPaths == {"a_compile_command", "b_compile_command"}
LinkTargetPaths == {"a_link_target", "b_link_target"}

\* Files found under an action output directory that no extractor run of
\* this build wrote.
StaleCompileCommands ==
  { <<"c">>, <<"c", NUL, "f">>, <<"c", "\"", NUL, "f", NUL, "x">> }
StaleLinkTargets ==
  { <<"o">>, <<"o", NUL, "i">>, <<"o", NUL, "i", NUL, "p", NUL, "x">> }

\* --execution_root, and the platform and working directory of an aggregator run.
ExecutionRoots == { <<"/", "e">>, <<"e", "\\">> }
Platforms ==
  { [platform |-> "linux2", cwd |-> <<"/", "w">>],
    [platform |-> "cygwin",
     cwd |-> <<"/", "c", "y", "g", "d", "r", "i", "v", "e", "/", "c">>] }

----------------------------------------------------------------------------
(* generate_compile_command.py                                             *)

\* _get_cpp_command with the header test endswith('h').
get_cpp_command_any_h(cpp_compile_info, include_all_headers) ==
  LET source == cpp_compile_info.source_file
  IN << cpp_compile_info.tool \o <<" ">>
          \o str_join(<<" ">>, cpp_compile_info.compiler_option)
          \o <<" ", "-", "c", " ">> \o source
          \o <<" ", "-", "o", " ">> \o cpp_compile_info.output_file,
        IF Len(cpp_compile_info.sources_and_headers) # 0 /\ include_all_headers
        THEN <<source>> \o SelectSeq(cpp_compile_info.sources_and_headers,
                                     LAMBDA source_file : EndsWith(source_file, <<"h">>))
        ELSE <<source>> >>

\* _get_cpp_command: <<command, sources>>.
get_cpp_command(cpp_compile_info, include_all_headers) ==
  LET compiler == cpp_compile_info.tool
      options == str_join(<<" ">>, cpp_compile_info.compiler_option)
      source == cpp_compile_info.source_file
      sources ==
        IF Len(cpp_compile_info.sources_and_headers) # 0 /\ include_all_headers
        THEN <<source>> \o SelectSeq(cpp_compile_info.sources_and_headers,
                                     LAMBDA source_file : EndsWith(source_file, <<".", "h">>))
        ELSE <<source>>
      output == cpp_compile_info.output_file
  IN << compiler \o <<" ">> \o options \o <<" ", "-", "c", " ">> \o source
          \o <<" ", "-", "o", " ">> \o output,
        sources >>

\* The writes of main's loop over source_files.
RECURSIVE WriteCommands(_, _)
WriteCommands(command, source_files) ==
  IF source_files = <<>> THEN <<>>
  ELSE command \o <<NUL>> \o Head(source_files) \o <<NUL>>
         \o WriteCommands(command, Tail(source_files))

\* main with argv[2] opened for writing before argv[1] is read.
generate_compile_command_main_open_first(input, before, include_all_headers) ==
  IF ~IsRecord(input) THEN [returned |-> "raised", file |-> <<>>]
  ELSE LET r == get_cpp_command(input, include_all_headers)
       IN [returned |-> "None", file |-> WriteCommands(r[1], r[2])]

\* main of generate_compile_command.py: what it returns and what it leaves at
\* argv[2], where `before` was.  open(argv[1]) or MergeFromString raising ends
\* the process before argv[2] is opened.
generate_compile_command_main(input, before, include_all_headers) ==
  IF ~IsRecord(input) THEN [returned |-> "raised", file |-> before]
  ELSE LET r == get_cpp_command(input, include_all_headers)
       IN [returned |-> "None", file |-> WriteCommands(r[1], r[2])]

----------------------------------------------------------------------------
(* generate_link_target.py                                                 *)

\* main without the early return for a target that is no executable.
generate_link_target_main_no_skip(input, before) ==
  IF ~IsRecord(input) THEN [returned |-> "raised", file |-> before]
  ELSE [returned |-> "None",
        file |-> input.owner \o <<NUL>> \o input.id \o <<NUL>> \o input.output_file]

\* main of generate_link_target.py.
generate_link_target_main(input, before) ==
  IF ~IsRecord(input) THEN [returned |-> "raised", file |-> before]
  ELSE IF input.link_target_type # EXECUTABLE
       THEN [returned |-> "0", file |-> <<>>]
       ELSE [returned |-> "None",
             file |-> input.owner \o <<NUL>> \o input.id \o <<NUL>> \o input.output_file]

----------------------------------------------------------------------------
(* generate_compile_commands_json.py                                       *)

\* The cygwin branch of _get_commands_from_file: /cygdrive/c/x to c:\\x, the
\* backslashes already doubled for the JSON string.
CygwinPath(file_path) ==
  LET stripped == str_replace(file_path,
                              <<"/", "c", "y", "g", "d", "r", "i", "v", "e", "/">>, <<>>)
      drive_name == SubSeq(stripped, 1, IF Len(stripped) >= 1 THEN 1 ELSE 0)
                      \o <<":", BACKSLASH, BACKSLASH>>
  IN drive_name \o str_replace(DropFirst(stripped, 2), <<SLASH>>, <<BACKSLASH, BACKSLASH>>)

\* The object literal appended for one (command, file) pair, its comma included.
CompileCommandObject(command_directory, command, file_path) ==
  <<"{", "\n", " ", " ", " ", " ", " ", " ", " ", " ",
    "\"", "d", "i", "r", "e", "c", "t", "o", "r", "y", "\"", ":", " ", "\"">>
  \o command_directory
  \o <<"\"", ",", "\n", " ", " ", " ", " ", " ", " ", " ", " ",
       "\"", "c", "o", "m", "m", "a", "n", "d", "\"", ":", " ", "\"">>
  \o command
  \o <<"\"", ",", "\n", " ", " ", " ", " ", " ", " ", " ", " ",
       "\"", "f", "i", "l", "e", "\"", ":", " ", "\"">>
  \o file_path
  \o <<"\"", "\n", " ", " ", " ", " ", " ", " ", "}", ",">>

\* The loop bound one short: range(0, len(contents) / 2 - 1).
PairCountOneShort(contents) == Len(contents) \div 2 - 1

\* The loop bound of a reader that skips a file with an odd field count.
PairCountEvenOnly(contents) ==
  IF Len(contents) % 2 = 1 THEN 0 ELSE Len(contents) \div 2

\* len(contents) / 2, the bound of the loop of _get_commands_from_file.
PairCount(contents) == Len(contents) \div 2

\* The command copied without the replace.
EscapeCommandNone(command) == command

\* contents[i * 2].replace('"', '\\"')
EscapeCommand(command) == str_replace(command, <<QUOTE>>, <<BACKSLASH, QUOTE>>)

\* file_path as _get_commands_from_file formats it.
FilePath(raw, env) ==
  LET file_path == os_path_abspath(raw, env.cwd)
  IN IF env.platform = "cygwin" /\ StartsWith(file_path, <<SLASH>>)
     THEN CygwinPath(file_path) ELSE file_path

\* _get_commands_from_file on a file holding `text`: the list `commands`.
get_commands_from_file(text, command_directory, env) ==
  LET contents == str_split(text, NUL)
  IN [ k \in 1..PairCount(contents) |->
         LET i == k - 1
         IN CompileCommandObject(command_directory,
                                 EscapeCommand(contents[i * 2 + 1]),
                                 FilePath(contents[i * 2 + 2], env)) ]

\* _get_compile_commands: `walk` is the order in which os.walk and
\* fnmatch.filter yield the *_compile_command files, `dir` their contents.
RECURSIVE get_compile_commands(_, _, _, _)
get_compile_commands(walk, dir, command_directory, env) ==
  IF walk = <<>> THEN <<>>
  ELSE get_commands_from_file(dir[Head(walk)], command_directory, env)
         \o get_compile_commands(Tail(walk), dir, command_directory, env)

\* f.write(data) at offset pos of a file holding `content`.
FileWrite(content, pos, data) ==
  SubSeq(content, 1, pos) \o data \o DropFirst(content, pos + Len(data))

\* The with-block of main of generate_compile_commands_json.py: '[', every
\* command, then seek(tell() - 1) and ']'.
write_compile_commands_json(commands) ==
  LET written == FileWrite(<<>>, 0, <<"[">> \o Concat(commands))
      tell == Len(written)
  IN FileWrite(written, tell - 1, <<"]">>)

----------------------------------------------------------------------------
(* generate_link_targets_json.py                                           *)

LinkTargetObject(target_package, target_uuid, target_executable) ==
  <<"{", "\n", " ", " ", " ", " ", " ", " ",
    "\"", "p", "a", "c", "k", "a", "g", "e", "\"", ":", " ", "\"">>
  \o target_package
  \o <<"\"", ",", "\n", " ", " ", " ", " ", " ", " ",
       "\"", "u", "u", "i", "d", "\"", ":", " ", "\"">>
  \o target_uuid
  \o <<"\"", ",", "\n", " ", " ", " ", " ", " ", " ",
       "\"", "e", "x", "e", "c", "u", "t", "a", "b", "l", "e", "\"", ":", " ", "\"">>
  \o target_executable
  \o <<"\"", "\n", " ", " ", " ", " ", "}", ",">>

\* The executable path copied without the replace.
EscapeExecutableNone(target_executable) == target_executable

\* target_executable.replace('\\', '\\\\')
EscapeExecutable(target_executable) ==
  str_replace(target_executable, <<BACKSLASH>>, <<BACKSLASH, BACKSLASH>>)

\* _get_link_target_from_file on a file holding `text`: a string or None.
get_link_target_from_file(text, command_directory) ==
  LET contents == str_split(text, NUL)
  IN IF Len(contents) < 3 THEN None
     ELSE LET target_package == contents[1]
              target_uuid == contents[2]
              target_executable == os_path_join(command_directory, contents[3])
          IN LinkTargetObject(target_package, target_uuid,
                              EscapeExecutable(target_executable))

\* _get_link_targets.
RECURSIVE get_link_targets(_, _, _)
get_link_targets(walk, dir, command_directory) ==
  IF walk = <<>> THEN <<>>
  ELSE LET target == get_link_target_from_file(dir[Head(walk)], command_directory)
           rest == get_link_targets(Tail(walk), dir, command_directory)
       IN IF target # None /\ target # <<>> THEN <<target>> \o rest ELSE rest

\* The with-block without the seek: ']' appended after the last comma.
write_link_targets_json_no_seek(targets) ==
  <<"[">> \o Concat(targets) \o <<"]">>

\* The with-block of main of generate_link_targets_json.py.
write_link_targets_json(targets) ==
  LET written == FileWrite(<<>>, 0, <<"[">> \o Concat(targets))
      tell == Len(written)
  IN FileWrite(written, tell - 1, <<"]">>)

----------------------------------------------------------------------------
(* The state: the file system the four scripts share, and the last process. *)
(*                                                                         *)
(* A behaviour is one pipeline: a build run with one action listener (the  *)
(* Usage line of each aggregator), whose extra actions write side-car      *)
(* files, and the aggregator that collapses them.  The two pipelines share *)
(* no file, so they are not interleaved.  The extractors run while the     *)
(* aggregate file does not exist yet ("the files written are consumed by   *)
(* the generate_..._json.py script"); the aggregator may run any number    *)
(* of times.  INCLUDE_ALL_HEADERS is True in the source; both values are   *)
(* explored because the flag is a module global meant to be edited.        *)
(* No string of a record holds NUL: they are argv elements, paths, labels. *)

VARIABLES
  action_listener,      \* --experimental_action_listener: the pipeline that is run
  INCLUDE_ALL_HEADERS,  \* the module flag of generate_compile_command.py
  files,                \* path -> content, or Absent
  action_of,            \* side-car path -> the `action` its last writer parsed
  commands,             \* `commands` of the last generate_compile_commands_json run
  targets,              \* `targets` of the last generate_link_targets_json run
  compile_run,          \* arguments and walk order of that compile aggregator run
  link_run,             \* arguments and walk order of that link aggregator run
  last_proc,            \* the script that ran last
  argv2,                \* its argv[2], for an extractor
  returned              \* what its main returned: "None", "0", "1" or "raised"

vars == <<action_listener, INCLUDE_ALL_HEADERS, files, action_of, commands, targets,
          compile_run, link_run, last_proc, argv2, returned>>

COMPILE_COMMANDS_JSON == "compile_commands.json"
LINK_TARGETS_JSON == "link_targets.json"

Paths == CompileCommandPaths \cup LinkTargetPaths
           \cup {COMPILE_COMMANDS_JSON, LINK_TARGETS_JSON}

NoAction == [kind |-> "none"]
NotRun == [ran |-> FALSE]

\* The orders in which a directory walk can yield the files present among S.
WalkOrders(S) ==
  LET present == {f \in S : files[f] # Absent}
      n == Cardinality(present)
  IN {w \in [1..n -> present] : \A i, j \in 1..n : i # j => w[i] # w[j]}

Init ==
  /\ action_listener \in {"generate_compile_commands_listener",
                          "generate_link_targets_listener"}
  /\ INCLUDE_ALL_HEADERS \in BOOLEAN
  /\ \E stale \in [Paths -> {Absent} \cup StaleCompileCommands \cup StaleLinkTargets] :
       /\ \A f \in {COMPILE_COMMANDS_JSON, LINK_TARGETS_JSON} : stale[f] = Absent
       /\ \A f \in CompileCommandPaths :
            stale[f] \in IF action_listener = "generate_compile_commands_listener"
                         THEN {Absent} \cup StaleCompileCommands ELSE {Absent}
       /\ \A f \in LinkTargetPaths :
            stale[f] \in IF action_listener = "generate_link_targets_listener"
                         THEN {Absent} \cup StaleLinkTargets ELSE {Absent}
       /\ files = stale
  /\ action_of = [f \in CompileCommandPaths \cup LinkTargetPaths |-> NoAction]
  /\ commands = <<>>
  /\ targets = <<>>
  /\ compile_run = NotRun
  /\ link_run = NotRun
  /\ last_proc = "none"
  /\ argv2 = "none"
  /\ returned = "None"

\* One run of generate_compile_command.py <input> <out>, an extra action of a
\* build whose database has not been collapsed yet.
GenerateCompileCommand(input, out) ==
  /\ action_listener = "generate_compile_commands_listener"
  /\ files[COMPILE_COMMANDS_JSON] = Absent
  /\ LET r == generate_compile_command_main(input, files[out], INCLUDE_ALL_HEADERS)
     IN /\ files' = [files EXCEPT ![out] = r.file]
        /\ returned' = r.returned
        /\ action_of' = IF IsRecord(input)
                        THEN [action_of EXCEPT ![out] = [kind |-> "compile", info |-> input]]
                        ELSE action_of
  /\ last_proc' = "generate_compile_command"
  /\ argv2' = out
  /\ UNCHANGED <<action_listener, INCLUDE_ALL_HEADERS, commands, targets,
                 compile_run, link_run>>

\* One run of generate_link_target.py <input> <out>.
GenerateLinkTarget(input, out) ==
  /\ action_listener = "generate_link_targets_listener"
  /\ files[LINK_TARGETS_JSON] = Absent
  /\ LET r == generate_link_target_main(input, files[out])
     IN /\ files' = [files EXCEPT ![out] = r.file]
        /\ returned' = r.returned
        /\ action_of' = IF IsRecord(input)
                        THEN [action_of EXCEPT ![out] = [kind |-> "link", info |-> input]]
                        ELSE action_of
  /\ last_proc' = "generate_link_target"
  /\ argv2' = out
  /\ UNCHANGED <<action_listener, INCLUDE_ALL_HEADERS, commands, targets,
                 compile_run, link_run>>

\* One run of generate_compile_commands_json.py: without arguments it prints
\* the usage and returns 1; otherwise it walks, collects and writes.
GenerateCompileCommandsJson ==
  /\ action_listener = "generate_compile_commands_listener"
  /\ last_proc' = "generate_compile_commands_json"
  /\ argv2' = "none"
  /\ \/ /\ returned' = "1"
        /\ UNCHANGED <<files, commands, compile_run>>
     \/ \E execution_root \in ExecutionRoots, env \in Platforms,
           walk \in WalkOrders(CompileCommandPaths) :
          /\ commands' = get_compile_commands(walk, files, execution_root, env)
          /\ files' = [files EXCEPT
                         ![COMPILE_COMMANDS_JSON] = write_compile_commands_json(commands')]
          /\ compile_run' = [ran |-> TRUE, execution_root |-> execution_root,
                             env |-> env, walk |-> walk]
          /\ returned' = "0"
  /\ UNCHANGED <<action_listener, INCLUDE_ALL_HEADERS, action_of, targets, link_run>>

\* One run of generate_link_targets_json.py.
GenerateLinkTargetsJson ==
  /\ action_listener = "generate_link_targets_listener"
  /\ last_proc' = "generate_link_targets_json"
  /\ argv2' = "none"
  /\ \/ /\ returned' = "1"
        /\ UNCHANGED <<files, targets, link_run>>
     \/ \E execution_root \in ExecutionRoots, walk \in WalkOrders(LinkTargetPaths) :
          /\ targets' = get_link_targets(walk, files, execution_root)
          /\ files' = [files EXCEPT
                         ![LINK_TARGETS_JSON] = write_link_targets_json(targets')]
          /\ link_run' = [ran |-> TRUE, execution_root |-> execution_root, walk |-> walk]
          /\ returned' = "0"
  /\ UNCHANGED <<action_listener, INCLUDE_ALL_HEADERS, action_of, commands, compile_run>>

Next ==
  \/ \E input \in CompileInfos \cup {Unreadable, Corrupt}, out \in CompileCommandPaths :
       GenerateCompileCommand(input, out)
  \/ \E input \in LinkActions \cup {Unreadable, Corrupt}, out \in LinkTargetPaths :
       GenerateLinkTarget(input, out)
  \/ GenerateCompileCommandsJson
  \/ GenerateLinkTargetsJson

Spec == Init /\ [][Next]_vars

----------------------------------------------------------------------------
(* The claims.                                                             *)

CompileRan == compile_run.ran
LinkRan == link_run.ran

\* e without its last character.
DropLast(e) == SubSeq(e, 1, Len(e) - 1)

\* What a file must hold to be '[' + N object literals separated by N-1
\* commas + ']', the literals being the collected entries without their
\* trailing comma.
ArrayOf(entries) ==
  <<"[">> \o str_join(<<",">>, [i \in 1..Len(entries) |-> DropLast(entries[i])]) \o <<"]">>

\* C1: aggregating zero entries leaves `[]` as the whole output file, in both
\* aggregators.
C1_ZeroEntriesWriteEmptyArray ==
  /\ (CompileRan /\ commands = <<>>) => files[COMPILE_COMMANDS_JSON] = <<"[", "]">>
  /\ (LinkRan /\ targets = <<>>) => files[LINK_TARGETS_JSON] = <<"[", "]">>

\* C2: with N >= 1 collected entries the output file is '[', the N object
\* literals in collection order separated by exactly N-1 commas, ']': only the
\* comma after the last object is overwritten.
C2_ArrayOfCollectedObjects ==
  /\ (CompileRan /\ Len(commands) >= 1) =>
       /\ \A i \in 1..Len(commands) :
            commands[i][1] = "{" /\ commands[i][Len(commands[i])] = ","
       /\ files[COMPILE_COMMANDS_JSON] = ArrayOf(commands)
  /\ (LinkRan /\ Len(targets) >= 1) =>
       /\ \A i \in 1..Len(targets) :
            targets[i][1] = "{" /\ targets[i][Len(targets[i])] = ","
       /\ files[LINK_TARGETS_JSON] = ArrayOf(targets)

\* Entries collected from two side-car files, so that commas separate objects
\* within one file's entries and across files.
C2_Witness ==
  /\ CompileRan
  /\ Len(compile_run.walk) = 2
  /\ Len(commands) >= 3
  /\ \A i \in 1..2 : Len(str_split(files[compile_run.walk[i]], NUL)) >= 2

\* The entries of sources_and_headers that end in '.h', by position.
HeaderPositions(sources_and_headers) ==
  {i \in 1..Len(sources_and_headers) :
     LET n == Len(sources_and_headers[i])
     IN n >= 2 /\ sources_and_headers[i][n - 1] = "." /\ sources_and_headers[i][n] = "h"}

\* The j-th of them.
NthHeader(sources_and_headers, j) ==
  LET I == HeaderPositions(sources_and_headers)
  IN sources_and_headers[CHOOSE i \in I : Cardinality({k \in I : k < i}) = j - 1]

\* The number of (command, file) pairs C4 states for a compile action.
ClaimedPairs(info) ==
  IF INCLUDE_ALL_HEADERS /\ Len(info.sources_and_headers) > 0
  THEN 1 + Cardinality(HeaderPositions(info.sources_and_headers))
  ELSE 1

\* C4: the side-car file written for a compile action holds exactly 1+H
\* (command, file) pairs with header inclusion enabled (1 with it disabled or
\* with no sources_and_headers): the primary source first, then the '.h'
\* entries in list order, all with the same command, each field NUL-terminated.
C4_OnePairPerSourceAndHeader ==
  \A f \in CompileCommandPaths :
    action_of[f].kind = "compile" =>
      LET info == action_of[f].info
          fields == str_split(files[f], NUL)
          P == ClaimedPairs(info)
      IN /\ Len(fields) = 2 * P + 1
         /\ fields[2 * P + 1] = <<>>
         /\ fields[2] = info.source_file
         /\ \A j \in 1..(P - 1) :
              fields[2 * (j + 1)] = NthHeader(info.sources_and_headers, j)
         /\ \A j \in 1..P : fields[2 * j - 1] = fields[1]

\* Header inclusion enabled, a list with a header and a non-header entry.
C4_Witness ==
  \E f \in CompileCommandPaths :
    /\ action_of[f].kind = "compile"
    /\ INCLUDE_ALL_HEADERS
    /\ Len(action_of[f].info.sources_and_headers) = 2
    /\ Cardinality(HeaderPositions(action_of[f].info.sources_and_headers)) = 1
    /\ Len(str_split(files[f], NUL)) = 5

\* JSON text, as far as the aggregators can emit it: an array of objects whose
\* members are strings.  Each parser returns the position after what it
\* parsed, or 0.
JsonWhitespace == {" ", "\n", "\t", "\r"}
JsonEscapes == {QUOTE, BACKSLASH, SLASH, "b", "f", "n", "r", "t"}
JsonHex == {"0", "1", "2", "3", "4", "5", "6", "7", "8", "9",
            "a", "b", "c", "d", "e", "f", "A", "B", "C", "D", "E", "F"}

RECURSIVE SkipWs(_, _)
SkipWs(t, i) ==
  IF i >= 1 /\ i <= Len(t) /\ t[i] \in JsonWhitespace THEN SkipWs(t, i + 1) ELSE i

\* From inside a string (after its opening quote) to after its closing quote.
RECURSIVE JsonStringBody(_, _)
JsonStringBody(t, j) ==
  IF j > Len(t) THEN 0
  ELSE IF t[j] = QUOTE THEN j + 1
  ELSE IF t[j] = BACKSLASH
       THEN IF j + 1 <= Len(t) /\ t[j + 1] \in JsonEscapes THEN JsonStringBody(t, j + 2)
            ELSE IF /\ j + 5 <= Len(t)
                    /\ t[j + 1] = "u"
                    /\ \A k \in (j + 2)..(j + 5) : t[k] \in JsonHex
                 THEN JsonStringBody(t, j + 6)
                 ELSE 0
  ELSE IF t[j] \in {NUL, "\n", "\t", "\r"} THEN 0
  ELSE JsonStringBody(t, j + 1)

JsonString(t, i) ==
  IF i >= 1 /\ i <= Len(t) /\ t[i] = QUOTE THEN JsonStringBody(t, i + 1) ELSE 0

\* string ws ':' ws string ws
JsonMember(t, i) ==
  LET k == JsonString(t, i)
      c == SkipWs(t, k)
  IN IF k = 0 \/ c > Len(t) \/ t[c] # ":" THEN 0
     ELSE LET v == JsonString(t, SkipWs(t, c + 1))
          IN IF v = 0 THEN 0 ELSE SkipWs(t, v)

\* After '{' ws: members separated by ',' up to '}'.
RECURSIVE JsonMembers(_, _)
JsonMembers(t, i) ==
  LET m == JsonMember(t, i)
  IN IF m = 0 \/ m > Len(t) THEN 0
     ELSE IF t[m] = "}" THEN m + 1
     ELSE IF t[m] = "," THEN JsonMembers(t, SkipWs(t, m + 1))
     ELSE 0

JsonObject(t, i) ==
  IF i < 1 \/ i > Len(t) \/ t[i] # "{" THEN 0
  ELSE LET j == SkipWs(t, i + 1)
       IN IF j <= Len(t) /\ t[j] = "}" THEN j + 1 ELSE JsonMembers(t, j)

\* After '[' ws: objects separated by ',' up to ']'.
RECURSIVE JsonElements(_, _)
JsonElements(t, i) ==
  LET o == JsonObject(t, i)
      e == SkipWs(t, o)
  IN IF o = 0 \/ e > Len(t) THEN 0
     ELSE IF t[e] = "]" THEN e + 1
     ELSE IF t[e] = "," THEN JsonElements(t, SkipWs(t, e + 1))
     ELSE 0

IsJsonArray(t) ==
  /\ t # Absent
  /\ Len(t) >= 2
  /\ t[1] = "["
  /\ LET j == SkipWs(t, 2)
         end == IF j <= Len(t) /\ t[j] = "]" THEN j + 1 ELSE JsonElements(t, j)
     IN end # 0 /\ SkipWs(t, end) = Len(t) + 1

\* C3: the aggregate file is syntactically valid JSON for every content of the
\* side-car files and every command directory (stated for one entry or more;
\* C1 is the case of none).
C3_AggregateIsValidJson ==
  /\ (CompileRan /\ Len(commands) >= 1) => IsJsonArray(files[COMPILE_COMMANDS_JSON])
  /\ (LinkRan /\ Len(targets) >= 1) => IsJsonArray(files[LINK_TARGETS_JSON])

\* e is c with every double quote preceded by a backslash and every other
\* character copied unchanged, in order.
RECURSIVE IsQuoteEscapeOf(_, _)
IsQuoteEscapeOf(e, c) ==
  IF c = <<>> THEN e = <<>>
  ELSE IF Head(c) = QUOTE
       THEN /\ Len(e) >= 2
            /\ e[1] = BACKSLASH
            /\ e[2] = QUOTE
            /\ IsQuoteEscapeOf(DropFirst(e, 2), Tail(c))
       ELSE /\ Len(e) >= 1
            /\ e[1] = Head(c)
            /\ IsQuoteEscapeOf(Tail(e), Tail(c))

\* e is c with every backslash doubled.
RECURSIVE IsBackslashDoubled(_, _)
IsBackslashDoubled(e, c) ==
  IF c = <<>> THEN e = <<>>
  ELSE IF Head(c) = BACKSLASH
       THEN /\ Len(e) >= 2
            /\ e[1] = BACKSLASH
            /\ e[2] = BACKSLASH
            /\ IsBackslashDoubled(DropFirst(e, 2), Tail(c))
       ELSE /\ Len(e) >= 1
            /\ e[1] = Head(c)
            /\ IsBackslashDoubled(Tail(e), Tail(c))

\* The number of fields a text splits into on NUL.
FieldCount(text) == Cardinality({k \in 1..Len(text) : text[k] = NUL}) + 1

\* The number of entries collected from the first n files of the last
\* compile aggregation, were each file of m fields to give m / 2 of them.
RECURSIVE EntriesBefore(_)
EntriesBefore(n) ==
  IF n = 0 THEN 0
  ELSE EntriesBefore(n - 1) + FieldCount(files[compile_run.walk[n]]) \div 2

\* The text of `obj` between its first `"command": "` and the `",` that
\* follows n characters later.
CommandField(obj, directory, n) ==
  LET key == <<QUOTE, "c", "o", "m", "m", "a", "n", "d", QUOTE, ":", " ", QUOTE>>
      start == 24 + Len(directory) + 23 + 1
  IN IF /\ Len(obj) >= start + n + 1
        /\ SubSeq(obj, start - Len(key), start - 1) = key
        /\ obj[start + n] = QUOTE
        /\ obj[start + n + 1] = ","
     THEN SubSeq(obj, start, start + n - 1)
     ELSE <<"no command field">>

\* C5: a side-car file written by generate_compile_command with P (command,
\* file) pairs, aggregated alone, gives exactly P objects, the i-th made of the
\* command and the file of the i-th pair; the final NUL adds and removes none.
C5_ExtractThenAggregateAlone ==
  (/\ CompileRan
   /\ Len(compile_run.walk) = 1
   /\ action_of[compile_run.walk[1]].kind = "compile") =>
     LET fields == str_split(files[compile_run.walk[1]], NUL)
         P == Cardinality({k \in 1..Len(files[compile_run.walk[1]]) :
                             files[compile_run.walk[1]][k] = NUL}) \div 2
     IN /\ P >= 1
        /\ Len(commands) = P
        /\ \A i \in 1..P :
             commands[i] =
               CompileCommandObject(compile_run.execution_root,
                                    str_replace(fields[2 * i - 1], <<QUOTE>>,
                                                <<BACKSLASH, QUOTE>>),
                                    FilePath(fields[2 * i], compile_run.env))

\* A file of three pairs (a source and two headers) aggregated alone.
C5_Witness ==
  /\ CompileRan
  /\ Len(compile_run.walk) = 1
  /\ action_of[compile_run.walk[1]].kind = "compile"
  /\ Len(commands) = 3

\* C6: for a link action that is no EXECUTABLE, generate_link_target writes an
\* empty file and returns 0; and every side-car file of fewer than three
\* NUL-delimited fields gives the link aggregator no entry, whatever else is
\* in the directory: the entries are as many as the files of three fields or
\* more.
C6_NonExecutableIsSkipped ==
  /\ \A f \in LinkTargetPaths :
       (action_of[f].kind = "link" /\ action_of[f].info.link_target_type # EXECUTABLE)
         => files[f] = <<>>
  /\ (/\ last_proc = "generate_link_target"
      /\ returned # "raised"
      /\ action_of[argv2].info.link_target_type # EXECUTABLE)
       => (returned = "0" /\ files[argv2] = <<>>)
  /\ LinkRan =>
       Len(targets) = Cardinality({i \in 1..Len(link_run.walk) :
                                     FieldCount(files[link_run.walk[i]]) >= 3})

\* A static library's empty file and an executable's file aggregated together.
C6_Witness ==
  /\ LinkRan
  /\ Len(link_run.walk) = 2
  /\ Len(targets) = 1
  /\ \E f \in LinkTargetPaths :
       /\ action_of[f].kind = "link"
       /\ action_of[f].info.link_target_type = "STATIC_LIBRARY"
       /\ files[f] = <<>>

\* The text of `obj` after the n-th `": "` up to the closing quote that ends
\* it, for an object of three members whose first two values have lengths a, b.
ExecutableField(obj, a, b) ==
  LET start == 20 + a + 18 + b + 24 + 1
  IN SubSeq(obj, start, Len(obj) - 8)

\* C7: for an executable link action with owner O, id I and output P the
\* side-car file is exactly O NUL I NUL P, and aggregating that file alone
\* gives one entry: package O, uuid I, executable os.path.join(command
\* directory, P) with every backslash doubled.
C7_ExecutableRoundTrip ==
  /\ \A f \in LinkTargetPaths :
       (action_of[f].kind = "link" /\ action_of[f].info.link_target_type = EXECUTABLE)
         => files[f] = action_of[f].info.owner \o <<NUL>> \o action_of[f].info.id
                         \o <<NUL>> \o action_of[f].info.output_file
  /\ (/\ LinkRan
      /\ Len(link_run.walk) = 1
      /\ action_of[link_run.walk[1]].kind = "link"
      /\ action_of[link_run.walk[1]].info.link_target_type = EXECUTABLE) =>
       LET a == action_of[link_run.walk[1]].info
           joined == IF Len(a.output_file) >= 1 /\ a.output_file[1] = SLASH
                     THEN a.output_file
                     ELSE IF link_run.execution_root[Len(link_run.execution_root)] = SLASH
                          THEN link_run.execution_root \o a.output_file
                          ELSE link_run.execution_root \o <<SLASH>> \o a.output_file
       IN /\ Len(targets) = 1
          /\ LET exe == ExecutableField(targets[1], Len(a.owner), Len(a.id))
             IN /\ IsBackslashDoubled(exe, joined)
                /\ targets[1] = LinkTargetObject(a.owner, a.id, exe)

\* An executable whose path holds a backslash, aggregated alone.
C7_Witness ==
  /\ LinkRan
  /\ Len(link_run.walk) = 1
  /\ action_of[link_run.walk[1]].kind = "link"
  /\ action_of[link_run.walk[1]].info.link_target_type = EXECUTABLE
  /\ \E k \in 1..Len(action_of[link_run.walk[1]].info.output_file) :
       action_of[link_run.walk[1]].info.output_file[k] = BACKSLASH
  /\ Len(targets) = 1

\* The number of double quotes of a command.
Quotes(c) == Cardinality({k \in 1..Len(c) : c[k] = QUOTE})

\* C8: in every emitted object of the compile aggregator the `command` field is
\* the side-car command with each double quote turned into backslash, double
\* quote and every other character unchanged and in order.
C8_CommandQuotesEscaped ==
  CompileRan =>
    \A n \in 1..Len(compile_run.walk) :
      LET fields == str_split(files[compile_run.walk[n]], NUL)
      IN \A k \in 1..(Len(fields) \div 2) :
           LET c == fields[2 * k - 1]
               i == EntriesBefore(n - 1) + k
           IN /\ i <= Len(commands)
              /\ IsQuoteEscapeOf(
                   CommandField(commands[i], compile_run.execution_root,
                                Len(c) + Quotes(c)),
                   c)

\* A command with two double quotes, emitted.
C8_Witness ==
  /\ CompileRan
  /\ \E n \in 1..Len(compile_run.walk) :
       LET fields == str_split(files[compile_run.walk[n]], NUL)
       IN Len(fields) >= 2 /\ Quotes(fields[1]) = 2

\* C9 as stated: every side-car file the compile aggregator accepts splits
\* into an even number of fields (it aborts on an odd count).
C9_AcceptedFilesHaveEvenFieldCount ==
  CompileRan =>
    \A n \in 1..Len(compile_run.walk) : FieldCount(files[compile_run.walk[n]]) % 2 = 0

\* C9 amended: the compile aggregator accepts every field count.  A file of m
\* fields gives m / 2 entries (rounded down), the last field of an odd count
\* being ignored, and the run returns 0; every file generate_compile_command
\* writes has an odd count, 2P+1, whose last field is empty.
C9_OddFieldCountIsTolerated ==
  /\ CompileRan => Len(commands) = EntriesBefore(Len(compile_run.walk))
  /\ (last_proc = "generate_compile_commands_json" /\ returned # "1") =>
       (returned = "0" /\ CompileRan /\ files[COMPILE_COMMANDS_JSON] # Absent)
  /\ \A f \in CompileCommandPaths :
       action_of[f].kind = "compile" =>
         /\ FieldCount(files[f]) % 2 = 1
         /\ files[f][Len(files[f])] = NUL

\* An odd count whose last field is not empty: a field is dropped silently.
C9_Witness ==
  /\ CompileRan
  /\ returned = "0"
  /\ \E n \in 1..Len(compile_run.walk) :
       LET text == files[compile_run.walk[n]]
       IN /\ FieldCount(text) = 3
          /\ text[Len(text)] # NUL
          /\ Len(commands) = EntriesBefore(Len(compile_run.walk))
          /\ Len(commands) >= 1

\* C10: an extractor that fails to read or deserialize its input record raises
\* and leaves every file, its output path included, as it was.
C10_FailedExtractionWritesNothing ==
  [][(/\ last_proc' \in {"generate_compile_command", "generate_link_target"}
      /\ returned' = "raised") => files' = files]_vars

\* A failed extraction over an output path that already held a file.
C10_Witness ==
  /\ last_proc \in {"generate_compile_command", "generate_link_target"}
  /\ returned = "raised"
  /\ files[argv2] # Absent
  /\ files[argv2] # <<>>

====
